---- MODULE Spec2Model ----
(***************************************************************************)
(* A model of scripts/misc.py (GMAC analysis helpers).                     *)
(*                                                                         *)
(* Time is counted in centiseconds (1 s = 100), so that the default        *)
(* thresholds dT = 0.02 s, dur_th = 1 s, tjump = 1 s and the resampling    *)
(* periods 0.03 s and 0.1 s are integers.  A data frame is the sequence    *)
(* of its index timestamps; a row is named by its 0-based position, as     *)
(* df.iloc does.                                                           *)
(***************************************************************************)
EXTENDS Integers, Sequences, FiniteSets

VARIABLES pc, args, ret, dfs, q, fed, folds, all_ul

vars == <<pc, args, ret, dfs, q, fed, folds, all_ul>>

---------------------------------------------------------------------------
(* Bounds of the model.                                                    *)

\* longest input frame (rows)
MaxLen == 5
\* longest input frame fed to compute_vector_magnitude (rows)
MaxImuLen == 3

\* inter-sample gaps of the input frames, in centiseconds
GapSet == {1, 2, 7, 101}
\* first timestamps of the input frames
StartSet == {0, 7}
\* gap thresholds and duration thresholds tried (0.02 s and 1 s among them)
DTSet == {1, 2, 100}
DurThSet == {0, 2, 100}
\* jump thresholds tried for get_continuous_segments (the default 1 s among them)
TJumpSet == {2, 100}
\* inter-sample gaps of the IMU frames: inside a bin, over two bins, over tjump
ImuGapSet == {1, 7, 101}
\* gyroscope readings of an IMU row (0: no rotation)
GyrSet == {0, 1}
\* number of abstract orientations
QMod == 3

RECURSIVE FramesOfLen(_, _)
\* the time-ordered index of n rows with gaps drawn from gaps
FramesOfLen(n, gaps) ==
  IF n = 0 THEN {<<>>}
  ELSE IF n = 1 THEN {<<s>> : s \in StartSet}
  ELSE {Append(f, f[Len(f)] + g) : f \in FramesOfLen(n - 1, gaps), g \in gaps}

Frames == UNION {FramesOfLen(n, GapSet) : n \in 0..MaxLen}

\* IMU frames: an index and one gyroscope reading per row
ImuFrames ==
  UNION {[index : FramesOfLen(m, ImuGapSet), gyr : [1..m -> GyrSet]]
           : m \in 1..MaxImuLen}

\* signals given to autcorr
MaxSig == 4
SigValues == {0, 1, 2}
Signals == UNION {[1..n -> SigValues] : n \in 1..MaxSig}

\* rater tables: MaxRows rows at most, one binary score per rater
MaxRows == 2
Raters == 4
RatingTables == UNION {[1..n -> [1..Raters -> {0, 1}]] : n \in 1..MaxRows}

\* tables given to outerloop_loso_split: the subject of each row
MaxSubj == 3
MaxLosoRows == 4
LosoTables == UNION {[1..n -> 1..MaxSubj] : n \in 0..MaxLosoRows}

\* autocorrelation summary: the cutoff N, the lengths around it, and the
\* number of (subject, segment) groups over the four limbs
NCut == 2
MaxGroups == 6
AcLens == {NCut - 1, NCut, NCut + 1}
Limbs == <<"left", "right", "aff", "unaff">>

---------------------------------------------------------------------------
(* Generic helpers standing for numpy primitives.                          *)

Min(S) == CHOOSE x \in S : \A y \in S : x <= y

RECURSIVE SortedSeq(_)
\* np.where(...)[0] / np.sort: the members of S in increasing order
SortedSeq(S) ==
  IF S = {} THEN <<>> ELSE <<Min(S)>> \o SortedSeq(S \ {Min(S)})

RECURSIVE Flatten(_)
\* np.hstack / pd.concat of a list of pieces
Flatten(ss) ==
  IF ss = <<>> THEN <<>> ELSE Head(ss) \o Flatten(Tail(ss))

\* np.arange(a, b)
Arange(a, b) == [k \in 1..(IF b > a THEN b - a ELSE 0) |-> a + k - 1]

\* df.index[k] for a 0-based k
At(df, k) == df[k + 1]

\* np.diff(df.index.values), as seconds: entry i (0-based) is t[i+1] - t[i]
Diff(df) == [i \in 1..(IF Len(df) > 0 THEN Len(df) - 1 ELSE 0) |-> df[i + 1] - df[i]]

\* np.where(d > th)[0]: the 0-based positions whose gap exceeds th
JumpsOver(df, th) == {i - 1 : i \in {j \in DOMAIN Diff(df) : Diff(df)[j] > th}}

---------------------------------------------------------------------------
(* assign_segments                                                         *)

\* inx = np.hstack((0, np.where(_dtimes > dT)[0] + 1, len(df)))
SegInx(df, dT) ==
  <<0>> \o SortedSeq({j + 1 : j \in JumpsOver(df, dT)}) \o <<Len(df)>>

\* seginx = list(zip(inx[0:-1], inx[1:]))
CandidateSegments(df, dT) ==
  LET inx == SegInx(df, dT)
  IN  [k \in 1..(Len(inx) - 1) |-> <<inx[k], inx[k + 1]>>]

\* the span test of the filter; df.index[ix[1]-1] on an empty frame raises
SpanRaises(df, ix) == Len(df) = 0

Span(df, ix) == At(df, ix[2] - 1) - At(df, ix[1])

\* a filter that also keeps a segment whose span equals dur_th
LongEnoughMutant(df, ix, dur_th) == Span(df, ix) >= dur_th

\* ... > dur_th
LongEnough(df, ix, dur_th) == Span(df, ix) > dur_th

RECURSIVE FilterSegments(_, _, _)
\* [ix for ix in seginx if span(ix) > dur_th]
FilterSegments(df, seginx, dur_th) ==
  IF seginx = <<>> THEN <<>>
  ELSE (IF LongEnough(df, Head(seginx), dur_th) THEN <<Head(seginx)>> ELSE <<>>)
       \o FilterSegments(df, Tail(seginx), dur_th)

KeptSegments(df, dur_th, dT) ==
  FilterSegments(df, CandidateSegments(df, dT), dur_th)

\* a labelling that numbers the candidates, so a dropped one uses up a label
SegmentLabelMutant(df, dT, i, ix) ==
  CHOOSE k \in 0..Len(df) : CandidateSegments(df, dT)[k + 1] = ix

\* enumerate(seginx): the label of the i-th (0-based) surviving segment
SegmentLabel(df, dT, i, ix) == i

\* The frame returned: one record per retained row, or the exception raised.
assign_segments(df, dur_th, dT) ==
  IF \E k \in DOMAIN CandidateSegments(df, dT) :
        SpanRaises(df, CandidateSegments(df, dT)[k])
  THEN [raised |-> "IndexError", rows |-> <<>>]
  ELSE LET seginx == KeptSegments(df, dur_th, dT)
       IN  IF seginx = <<>>
           THEN \* np.hstack of an empty list
                [raised |-> "ValueError", rows |-> <<>>]
           ELSE [raised |-> "none",
                 rows |-> Flatten([k \in DOMAIN seginx |->
                            [j \in 1..(seginx[k][2] - seginx[k][1]) |->
                               [row |-> seginx[k][1] + j - 1,
                                time |-> At(df, seginx[k][1] + j - 1),
                                segment |-> SegmentLabel(df, dT, k - 1, seginx[k])]]])]

---------------------------------------------------------------------------
(* get_continuous_segments                                                 *)

\* inx = np.sort(np.append(np.where(time_diff > tjump)[0], -1))
PieceInx(df, tjump) == SortedSeq(JumpsOver(df, tjump) \cup {-1})

\* df.iloc[a:b] as the 0-based positions it selects
Iloc(df, a, b) ==
  LET lo == IF a < 0 THEN 0 ELSE a
      hi == IF b > Len(df) THEN Len(df) ELSE b
  IN  Arange(lo, hi)

\* a split that stops each piece one row early (an off-by-one slice end)
get_continuous_segments_mutant(df, tjump) ==
  LET inx == PieceInx(df, tjump)
  IN  [i \in 1..Len(inx) |->
         IF i < Len(inx)
         THEN Iloc(df, inx[i] + 1, inx[i + 1])
         ELSE Iloc(df, inx[Len(inx)] + 1, Len(df))]

\* the list of pieces, each the sequence of the row positions it holds
get_continuous_segments(df, tjump) ==
  LET inx == PieceInx(df, tjump)
  IN  [i \in 1..Len(inx) |->
         IF i < Len(inx)
         THEN Iloc(df, inx[i] + 1, inx[i + 1] + 1)
         ELSE Iloc(df, inx[Len(inx)] + 1, Len(df))]

---------------------------------------------------------------------------
(* resample                                                                *)

\* round(1 / new_fs, 2) in centiseconds: 100 / new_fs to the nearest integer,
\* a tie going to the even one as Python's round does
BinWidth(new_fs) ==
  LET d == 100 \div new_fs
      r == 100 % new_fs
  IN  IF 2 * r < new_fs THEN d
      ELSE IF 2 * r > new_fs THEN d + 1
      ELSE IF d % 2 = 0 THEN d ELSE d + 1

\* the first multiple of w that is >= t (the right edge of t's right-closed bin)
RightEdge(t, w) == ((t + w - 1) \div w) * w

\* the first multiple of w that is <= t (the left edge of t's left-closed bin)
LeftEdge(t, w) == (t \div w) * w

\* bins that are closed on the left and carry their right edge
BinsRightMutant(df, piece, w) ==
  IF piece = <<>> THEN <<>>
  ELSE LET lo == LeftEdge(At(df, piece[1]), w) + w
           hi == LeftEdge(At(df, piece[Len(piece)]), w) + w
       IN  [k \in 1..((hi - lo) \div w + 1) |->
              [time |-> lo + (k - 1) * w,
               rows |-> {r \in {piece[j] : j \in DOMAIN piece} :
                           /\ At(df, r) >= lo + (k - 2) * w
                           /\ At(df, r) < lo + (k - 1) * w}]]

\* piece.resample(w, label='right', closed='right'): one row per bin of width w
\* from the bin of the first row to the bin of the last; a bin holds the rows
\* with edge - w < time <= edge (none: the mean is NaN)
BinsRight(df, piece, w) ==
  IF piece = <<>> THEN <<>>
  ELSE LET lo == RightEdge(At(df, piece[1]), w)
           hi == RightEdge(At(df, piece[Len(piece)]), w)
       IN  [k \in 1..((hi - lo) \div w + 1) |->
              [time |-> lo + (k - 1) * w,
               rows |-> {r \in {piece[j] : j \in DOMAIN piece} :
                           /\ At(df, r) > lo + (k - 2) * w
                           /\ At(df, r) <= lo + (k - 1) * w}]]

\* piece.resample('1S'): bins closed and labelled on the left
BinsLeft(df, piece, w) ==
  IF piece = <<>> THEN <<>>
  ELSE LET lo == LeftEdge(At(df, piece[1]), w)
           hi == LeftEdge(At(df, piece[Len(piece)]), w)
       IN  [k \in 1..((hi - lo) \div w + 1) |->
              [time |-> lo + (k - 1) * w,
               rows |-> {r \in {piece[j] : j \in DOMAIN piece} :
                           /\ At(df, r) >= lo + (k - 1) * w
                           /\ At(df, r) < lo + k * w}]]

\* the default tjump of get_continuous_segments, 1 s
TJumpDefault == 100

\* dfs of resample: the resampled pieces
ResampledPieces(df, new_fs) ==
  LET pieces == get_continuous_segments(df, TJumpDefault)
  IN  [i \in DOMAIN pieces |-> BinsRight(df, pieces[i], BinWidth(new_fs))]

resample(df, new_fs) == Flatten(ResampledPieces(df, new_fs))

\* the index of a resampled frame
IndexOf(rows) == [k \in DOMAIN rows |-> rows[k].time]

---------------------------------------------------------------------------
(* compute_vector_magnitude: the orientation recurrence                    *)

\* the orientation [1., 0., 0., 0.]
Identity == 0

RECURSIVE SumOver(_, _)
SumOver(f, S) ==
  IF S = {} THEN 0
  ELSE LET x == CHOOSE y \in S : TRUE IN f[x + 1] + SumOver(f, S \ {x})

\* the gyroscope column of a resampled row: the mean over the rows of its bin,
\* kept as their sum and their number (the readings are >= 0, so the mean is 0
\* iff the sum is); an empty bin gives NaN
BinGyr(imu, bin) ==
  [sum |-> SumOver(imu.gyr, bin.rows), count |-> Cardinality(bin.rows)]

\* Madgwick.updateIMU on abstract orientations 0..QMod-1: a reading whose norm
\* is not > 0 (zero, NaN) returns the previous orientation, any other turns it
updateIMU(qprev, gyr) ==
  IF gyr.count = 0 \/ gyr.sum = 0 THEN qprev ELSE (qprev + 1) % QMod

---------------------------------------------------------------------------
(* autcorr                                                                 *)

RECURSIVE SeqSum(_)
SeqSum(x) == IF x = <<>> THEN 0 ELSE Head(x) + SeqSum(Tail(x))

\* np.std(x) == 0
ZeroStd(x) == \A i, j \in DOMAIN x : x[i] = x[j]

\* x - np.mean(x), every entry multiplied by len(x) to stay an integer
XHat(x) == [i \in DOMAIN x |-> Len(x) * x[i] - SeqSum(x)]

RECURSIVE LagSum(_, _, _)
\* sum of xh[i] * xh[i + k] for i = from .. len - k
LagSum(xh, k, from) ==
  IF from + k > Len(xh) THEN 0
  ELSE xh[from] * xh[from + k] + LagSum(xh, k, from + 1)

\* np.correlate(x_hat, x_hat, mode='full')[len(x)-1:]: the lags 0 .. len-1
Correlate(xh) == [k \in 1..Len(xh) |-> LagSum(xh, k - 1, 1)]

\* an autocorrelation that slices the lags from len(x) on, losing lag 0
autcorr_mutant(x) ==
  IF ZeroStd(x) THEN [i \in DOMAIN x |-> [num |-> 0, den |-> 1]]
  ELSE LET ac == Correlate(XHat(x))
       IN  [k \in 1..(Len(ac) - 1) |-> [num |-> ac[k + 1], den |-> ac[1]]]

\* the entries are the fractions num / den
autcorr(x) ==
  IF ZeroStd(x) THEN [i \in DOMAIN x |-> [num |-> 0, den |-> 1]]
  ELSE LET ac == Correlate(XHat(x))
       IN  [k \in DOMAIN ac |-> [num |-> ac[k], den |-> ac[1]]]

---------------------------------------------------------------------------
(* get_uluse_from_raters                                                   *)

\* len(row) * np.mean(row)
RowSum(row) == SeqSum(row)

\* _mean > 0.5 and _mean == 0.5, on twice the row sum
MeanOverHalf(row) == 2 * RowSum(row) > Len(row)
MeanIsHalf(row) == 2 * RowSum(row) = Len(row)

\* the rows np.random.rand is drawn for
TieRows(ratings) == {i \in DOMAIN ratings : MeanIsHalf(ratings[i])}

\* a labelling that thresholds the row sum instead of the row mean
get_uluse_from_raters_mutant(ratings, coin) ==
  [i \in DOMAIN ratings |->
     IF MeanIsHalf(ratings[i]) THEN coin[i] ELSE 2 * RowSum(ratings[i]) > 1]

\* coin[i] is the outcome of np.random.rand() > 0.5 drawn for tie row i
get_uluse_from_raters(ratings, coin) ==
  [i \in DOMAIN ratings |->
     IF MeanIsHalf(ratings[i]) THEN coin[i] ELSE MeanOverHalf(ratings[i])]

---------------------------------------------------------------------------
(* outerloop_loso_split                                                    *)

\* the group keys of limbdf.groupby(subcol), in the sorted order it visits
GroupKeys(limbdf) == SortedSeq({limbdf[i] : i \in DOMAIN limbdf})

RECURSIVE RowsWhere(_, _, _, _)
\* the 0-based positions >= from of the rows whose subject is (eq) or is not subj
RowsWhere(limbdf, subj, eq, from) ==
  IF from > Len(limbdf) THEN <<>>
  ELSE (IF (limbdf[from] = subj) = eq THEN <<from - 1>> ELSE <<>>)
       \o RowsWhere(limbdf, subj, eq, from + 1)

\* a fold that trains on the whole table
LosoFoldMutant(limbdf, subj) ==
  [subject |-> subj,
   train |-> Arange(0, Len(limbdf)),
   val |-> RowsWhere(limbdf, subj, TRUE, 1)]

\* yield (limbdf[limbdf[subcol] != subj], subjdf)
LosoFold(limbdf, subj) ==
  [subject |-> subj,
   train |-> RowsWhere(limbdf, subj, FALSE, 1),
   val |-> RowsWhere(limbdf, subj, TRUE, 1)]

---------------------------------------------------------------------------
(* genrate_ul_autocorr_summary                                             *)

\* _acorr.T.shape[0]: the autocorrelation of a segment of len rows has len lags
AcorrRows(len) == len

\* _acorr.T[:N, :].shape[0]
Truncated(len, N) == IF len < N THEN len ELSE N

RECURSIVE Aggregate(_, _, _, _)
\* the loop over the segments of one limb; segs[k] is the length of the k-th
\* segment visited, acc is all_ul[limb] so far: None, or the stacked array as
\* its row count and the segments (0-based, in visiting order) whose columns it
\* holds, or the error raised
Aggregate(segs, k, N, acc) ==
  IF k > Len(segs) THEN acc
  ELSE IF acc.raised # "none" THEN acc
  ELSE IF acc.isNone
       THEN Aggregate(segs, k + 1, N,
                      [isNone |-> FALSE, raised |-> "none",
                       rows |-> Truncated(AcorrRows(segs[k]), N),
                       cols |-> <<k - 1>>])
  ELSE IF AcorrRows(segs[k]) >= N
       THEN IF acc.rows # Truncated(AcorrRows(segs[k]), N)
            THEN \* np.hstack of arrays with different row counts
                 [acc EXCEPT !.raised = "ValueError"]
            ELSE Aggregate(segs, k + 1, N, [acc EXCEPT !.cols = Append(@, k - 1)])
  ELSE Aggregate(segs, k + 1, N, acc)

\* all_ul[limb] = None
NoneYet == [isNone |-> TRUE, raised |-> "none", rows |-> 0, cols |-> <<>>]

\* all_ul, limb by limb (datadf[l] lists the segment lengths of limb l in the
\* order iterate_dataframes visits them)
genrate_ul_autocorr_summary(datadf, N) ==
  [l \in DOMAIN datadf |-> Aggregate(datadf[l], 1, N, NoneYet)]

---------------------------------------------------------------------------
(* The calls.  Each behaviour is one call of one function of the module.   *)

NoArgs == [op |-> "none"]

Init ==
  /\ pc = "idle"
  /\ args = NoArgs
  /\ ret = <<>>
  /\ dfs = <<>>
  /\ q = <<>>
  /\ fed = <<>>
  /\ folds = <<>>
  /\ all_ul = <<>>

CallAssignSegments ==
  /\ pc = "idle"
  /\ \E df \in Frames, dur_th \in DurThSet, dT \in DTSet :
       /\ args' = [op |-> "assign_segments", df |-> df, dur_th |-> dur_th, dT |-> dT]
       /\ ret' = assign_segments(df, dur_th, dT)
  /\ pc' = "assign_segments"
  /\ UNCHANGED <<dfs, q, fed, folds, all_ul>>

CallGetContinuousSegments ==
  /\ pc = "idle"
  /\ \E df \in Frames, tjump \in TJumpSet :
       /\ args' = [op |-> "get_continuous_segments", df |-> df, tjump |-> tjump]
       /\ ret' = get_continuous_segments(df, tjump)
  /\ pc' = "get_continuous_segments"
  /\ UNCHANGED <<dfs, q, fed, folds, all_ul>>

\* the target frequencies the pipeline uses
NewFsSet == {30, 10}

CallResample ==
  /\ pc = "idle"
  /\ \E df \in Frames, new_fs \in NewFsSet :
       /\ args' = [op |-> "resample", df |-> df, new_fs |-> new_fs]
       /\ dfs' = ResampledPieces(df, new_fs)
       /\ ret' = resample(df, new_fs)
  /\ pc' = "resample"
  /\ UNCHANGED <<q, fed, folds, all_ul>>

\* compute_vector_magnitude up to q = np.tile(...)
VmResample ==
  /\ pc = "idle"
  /\ \E imudf \in ImuFrames :
       /\ args' = [op |-> "compute_vector_magnitude", imudf |-> imudf, new_fs |-> 30]
       /\ dfs' = ResampledPieces(imudf.index, 30)
       /\ ret' = resample(imudf.index, 30)
       /\ q' = [k \in DOMAIN resample(imudf.index, 30) |-> Identity]
  /\ fed' = <<>>
  /\ pc' = "vm_first"
  /\ UNCHANGED <<folds, all_ul>>

\* r = orientation.q2R(mg.updateIMU(q[0], gyr[0], acc[0])): q[0] is read, not set
VmFirst ==
  /\ pc = "vm_first"
  /\ fed' = <<q[1]>>
  /\ pc' = "vm_loop"
  /\ UNCHANGED <<args, ret, dfs, q, folds, all_ul>>

\* one pass of the loop: q[i] = mg.updateIMU(q[i - 1], gyr[i], acc[i])
VmStep ==
  /\ pc = "vm_loop"
  /\ Len(fed) < Len(q)
  /\ LET i == Len(fed)
     IN  /\ fed' = Append(fed, q[i])
         /\ q' = [q EXCEPT ![i + 1] = updateIMU(q[i], BinGyr(args.imudf, ret[i + 1]))]
  /\ UNCHANGED <<pc, args, ret, dfs, folds, all_ul>>

\* after the loop: out_df on the same index, resample(out_df, 10), then the
\* 1 s sums of each continuous piece; ret is the index of the counts
VmFinish ==
  /\ pc = "vm_loop"
  /\ Len(fed) = Len(q)
  /\ LET out_df == IndexOf(ret)
         tenhz == IndexOf(resample(out_df, 10))
         pieces == get_continuous_segments(tenhz, 100)
     IN  /\ dfs' = ResampledPieces(out_df, 10)
         /\ ret' = Flatten([i \in DOMAIN pieces |-> BinsLeft(tenhz, pieces[i], 100)])
  /\ args' = [args EXCEPT !.new_fs = 10]
  /\ pc' = "vm_done"
  /\ UNCHANGED <<q, fed, folds, all_ul>>

CallAutcorr ==
  /\ pc = "idle"
  /\ \E x \in Signals :
       /\ args' = [op |-> "autcorr", x |-> x]
       /\ ret' = autcorr(x)
  /\ pc' = "autcorr"
  /\ UNCHANGED <<dfs, q, fed, folds, all_ul>>

\* get_uluse_from_raters, run on a table and run once more on the same table;
\* ret lists the results of the runs
CallGetUluse ==
  /\ \/ /\ pc = "idle"
        /\ \E ratings \in RatingTables :
             args' = [op |-> "get_uluse_from_raters", ratings |-> ratings]
     \/ /\ pc = "get_uluse_from_raters"
        /\ Len(ret) < 2
        /\ args' = args
  /\ \E coin \in [TieRows(args'.ratings) -> BOOLEAN] :
       ret' = Append(ret, get_uluse_from_raters(args'.ratings, coin))
  /\ pc' = "get_uluse_from_raters"
  /\ UNCHANGED <<dfs, q, fed, folds, all_ul>>

\* calling outerloop_loso_split makes the generator; nothing is yielded yet
CallLoso ==
  /\ pc = "idle"
  /\ \E limbdf \in LosoTables :
       args' = [op |-> "outerloop_loso_split", limbdf |-> limbdf]
  /\ folds' = <<>>
  /\ pc' = "loso"
  /\ UNCHANGED <<ret, dfs, q, fed, all_ul>>

\* the generator yields the fold of the next group
LosoNext ==
  /\ pc = "loso"
  /\ Len(folds) < Len(GroupKeys(args.limbdf))
  /\ folds' = Append(folds, LosoFold(args.limbdf, GroupKeys(args.limbdf)[Len(folds) + 1]))
  /\ UNCHANGED <<pc, args, ret, dfs, q, fed, all_ul>>

\* the generator is exhausted
LosoStop ==
  /\ pc = "loso"
  /\ Len(folds) = Len(GroupKeys(args.limbdf))
  /\ pc' = "loso_done"
  /\ UNCHANGED <<args, ret, dfs, q, fed, folds, all_ul>>

\* how many segments each limb has: one at least, MaxGroups in all at most
GroupCounts ==
  {n \in [DOMAIN Limbs -> 1..(MaxGroups - 3)] : n[1] + n[2] + n[3] + n[4] <= MaxGroups}

CallAutocorrSummary ==
  /\ pc = "idle"
  /\ \E n \in GroupCounts :
       \E a \in [1..n[1] -> AcLens], b \in [1..n[2] -> AcLens],
          c \in [1..n[3] -> AcLens], d \in [1..n[4] -> AcLens] :
         /\ args' = [op |-> "genrate_ul_autocorr_summary",
                     datadf |-> <<a, b, c, d>>, N |-> NCut]
         /\ all_ul' = genrate_ul_autocorr_summary(<<a, b, c, d>>, NCut)
  /\ pc' = "genrate_ul_autocorr_summary"
  /\ UNCHANGED <<ret, dfs, q, fed, folds>>

Next ==
  \/ CallAssignSegments
  \/ CallGetContinuousSegments
  \/ CallResample
  \/ VmResample
  \/ VmFirst
  \/ VmStep
  \/ VmFinish
  \/ CallAutcorr
  \/ CallGetUluse
  \/ CallLoso
  \/ LosoNext
  \/ LosoStop
  \/ CallAutocorrSummary

Spec == Init /\ [][Next]_vars

---------------------------------------------------------------------------
(* Properties.                                                             *)

Range(s) == {s[i] : i \in DOMAIN s}

\* the gap, in the input frame df, between row r (0-based) and the row after it
GapAfter(df, r) == At(df, r + 1) - At(df, r)

\* the candidate segment (as its index in the candidate list) that holds row r
CandidateOf(df, dT, r) ==
  CHOOSE k \in DOMAIN CandidateSegments(df, dT) :
    CandidateSegments(df, dT)[k][1] <= r /\ r < CandidateSegments(df, dT)[k][2]

\* the candidates whose span (last timestamp - first timestamp) is > dur_th
Survivors(df, dT, dur_th) ==
  {k \in DOMAIN CandidateSegments(df, dT) :
     LET ix == CandidateSegments(df, dT)[k]
     IN  At(df, ix[2] - 1) - At(df, ix[1]) > dur_th}

AssignReturned == pc = "assign_segments" /\ ret.raised = "none"

\* C1: whenever assign_segments returns a frame, (a) its rows are input rows
\* in their original order, (b) rows with the same label are contiguous,
\* (c) consecutive rows with the same label are at most dT apart and the
\* rows on the two sides of a label change are more than dT apart, and
\* (d) every label spans strictly more than dur_th.
C1_SegmentsContract ==
  AssignReturned =>
    LET rows == ret.rows
        df == args.df
    IN  /\ Len(rows) <= Len(df)
        /\ \A k \in DOMAIN rows :
             /\ rows[k].row \in 0..(Len(df) - 1)
             /\ rows[k].time = At(df, rows[k].row)
        /\ \A k \in 1..(Len(rows) - 1) : rows[k].row < rows[k + 1].row
        /\ \A i, j, k \in DOMAIN rows :
             (i < j /\ j < k /\ rows[i].segment = rows[k].segment)
               => rows[j].segment = rows[i].segment
        /\ \A k \in 1..(Len(rows) - 1) :
             IF rows[k].segment = rows[k + 1].segment
             THEN rows[k + 1].time - rows[k].time <= args.dT
             ELSE rows[k + 1].time - rows[k].time > args.dT
        /\ \A i \in DOMAIN rows :
             \E a, b \in DOMAIN rows :
               /\ rows[a].segment = rows[i].segment
               /\ rows[b].segment = rows[i].segment
               /\ rows[b].time - rows[a].time > args.dur_th

\* a frame came back with two labels and fewer rows than the input had
C1_Witness ==
  /\ AssignReturned
  /\ Len(ret.rows) < Len(args.df)
  /\ \E i, j \in DOMAIN ret.rows : ret.rows[i].segment # ret.rows[j].segment

\* C2: whenever assign_segments returns a frame, the rows retained are exactly
\* the rows of the candidate segments with span > dur_th, and the label of a
\* row is the number of surviving candidates before its own: the labels are
\* 0, 1, ..., m-1 in temporal order, m the number of survivors.
C2_ConsecutiveLabels ==
  AssignReturned =>
    LET rows == ret.rows
        df == args.df
        alive == Survivors(df, args.dT, args.dur_th)
    IN  /\ {rows[k].row : k \in DOMAIN rows}
             = {r \in 0..(Len(df) - 1) : CandidateOf(df, args.dT, r) \in alive}
        /\ \A k \in DOMAIN rows :
             rows[k].segment =
               Cardinality({c \in alive : c < CandidateOf(df, args.dT, rows[k].row)})
        /\ {rows[k].segment : k \in DOMAIN rows} = 0..(Cardinality(alive) - 1)

\* a short segment between two long ones was dropped: the labels are 0 and 1
C2_Witness ==
  /\ AssignReturned
  /\ Cardinality(Survivors(args.df, args.dT, args.dur_th)) = 2
  /\ \E k \in 1..(Len(ret.rows) - 1) :
       /\ ret.rows[k + 1].row > ret.rows[k].row + 1
       /\ ret.rows[k].segment = 0
       /\ ret.rows[k + 1].segment = 1

\* C3: on a non-empty input whose candidate segments all have span <= dur_th,
\* assign_segments returns a frame of zero rows and raises nothing.
C3_EmptyResult ==
  (/\ pc = "assign_segments"
   /\ Len(args.df) > 0
   /\ Survivors(args.df, args.dT, args.dur_th) = {})
    => (ret.raised = "none" /\ ret.rows = <<>>)

\* the rows (0-based) of the table whose subject is s
RowsOf(limbdf, s) == {i - 1 : i \in {j \in DOMAIN limbdf : limbdf[j] = s}}

StrictlyIncreasing(s) == \A i \in 1..(Len(s) - 1) : s[i] < s[i + 1]

\* C4: every fold yielded validates on exactly the rows of one subject and
\* trains on exactly the other rows, no two folds share a subject, and when
\* the generator is exhausted there is one fold per distinct subject, the
\* validation sets being pairwise disjoint and covering the table.
C4_LosoFolds ==
  (pc \in {"loso", "loso_done"}) =>
    LET limbdf == args.limbdf
        all == 0..(Len(limbdf) - 1)
    IN  /\ \A f \in DOMAIN folds :
             /\ folds[f].subject \in Range(limbdf)
             /\ StrictlyIncreasing(folds[f].val)
             /\ StrictlyIncreasing(folds[f].train)
             /\ Range(folds[f].val) = RowsOf(limbdf, folds[f].subject)
             /\ Range(folds[f].train) = all \ RowsOf(limbdf, folds[f].subject)
             /\ Range(folds[f].val) \cap Range(folds[f].train) = {}
             /\ Range(folds[f].val) \cup Range(folds[f].train) = all
        /\ \A f, g \in DOMAIN folds :
             f # g => /\ folds[f].subject # folds[g].subject
                      /\ Range(folds[f].val) \cap Range(folds[g].val) = {}
        /\ pc = "loso_done" =>
             /\ Len(folds) = Cardinality(Range(limbdf))
             /\ UNION {Range(folds[f].val) : f \in DOMAIN folds} = all

\* the generator ended after three folds, one of them with two rows
C4_Witness ==
  /\ pc = "loso_done"
  /\ Len(folds) = 3
  /\ \E f \in DOMAIN folds : Len(folds[f].val) = 2

\* the positions (1-based) in the concatenated frame of the first row of each
\* resampled piece
PieceStarts(pieces) ==
  {1 + Len(Flatten(SubSeq(pieces, 1, j - 1))) : j \in DOMAIN pieces}

\* C5: in compute_vector_magnitude the previous orientation fed to the
\* attitude update for the first sample of every continuous segment of the
\* 30 Hz frame is the identity quaternion.
C5_RestartPerSegment ==
  (pc = "vm_loop") =>
    \A k \in DOMAIN fed : k \in PieceStarts(dfs) => fed[k] = Identity

\* C6: inside every resampled piece the output timestamps are 1/new_fs
\* apart (new_fs times the spacing is one second), for new_fs = 30 and 10.
C6_SpacingIsPeriod ==
  (pc \in {"resample", "vm_first", "vm_loop", "vm_done"}) =>
    \A p \in DOMAIN dfs :
      \A k \in 1..(Len(dfs[p]) - 1) :
        (dfs[p][k + 1].time - dfs[p][k].time) * args.new_fs = 100

\* C7: in every run, a row whose mean is > 0.5 is labelled 1 and a row whose
\* mean is < 0.5 is labelled 0, so two runs on the same table differ at most
\* in the rows whose mean is exactly 0.5.
C7_DeterministicOffTies ==
  (pc = "get_uluse_from_raters") =>
    LET ratings == args.ratings
    IN  /\ \A run \in DOMAIN ret :
             /\ DOMAIN ret[run] = DOMAIN ratings
             /\ \A i \in DOMAIN ratings :
                  /\ 2 * SeqSum(ratings[i]) > Raters => ret[run][i] = TRUE
                  /\ 2 * SeqSum(ratings[i]) < Raters => ret[run][i] = FALSE
        /\ Len(ret) = 2 =>
             \A i \in DOMAIN ratings :
               ret[1][i] # ret[2][i] => 2 * SeqSum(ratings[i]) = Raters

\* two runs on one table gave a tied row both labels, next to an untied row
C7_Witness ==
  /\ pc = "get_uluse_from_raters"
  /\ Len(ret) = 2
  /\ \E i, j \in DOMAIN args.ratings :
       /\ 2 * SeqSum(args.ratings[i]) = Raters
       /\ ret[1][i] = TRUE
       /\ ret[2][i] = FALSE
       /\ 2 * SeqSum(args.ratings[j]) > Raters

SummaryReturned ==
  /\ pc = "genrate_ul_autocorr_summary"
  /\ \A l \in DOMAIN all_ul : all_ul[l].raised = "none"

\* C8: when genrate_ul_autocorr_summary returns, the aggregate of every limb
\* holds the columns of exactly the segments whose length is >= N, cut to N
\* rows; no shorter segment contributes, the first one visited included.
C8_OnlyLongSegments ==
  SummaryReturned =>
    \A l \in DOMAIN all_ul :
      LET segs == args.datadf[l]
          long == {k - 1 : k \in {j \in DOMAIN segs : segs[j] >= args.N}}
      IN  /\ Range(all_ul[l].cols) = long
          /\ long # {} => all_ul[l].rows = args.N

\* C9: autcorr(x) is as long as x; for a constant x every entry is 0; for
\* any other x the lag-0 sum is nonzero, the lag-0 entry is 1 and the entry of
\* lag k is the lag-k sum of products of the centred signal over the lag-0 sum.
C9_Autocorr ==
  (pc = "autcorr") =>
    LET x == args.x
        n == Len(x)
        c == [i \in 1..n |-> n * x[i] - SeqSum(x)]
    IN  /\ Len(ret) = n
        /\ Cardinality(Range(x)) = 1 =>
             \A k \in DOMAIN ret : ret[k].num = 0 /\ ret[k].den # 0
        /\ Cardinality(Range(x)) > 1 =>
             /\ ret[1].den # 0
             /\ ret[1].num = ret[1].den
             /\ \A k \in DOMAIN ret :
                  /\ ret[k].den = ret[1].den
                  /\ ret[k].num = SumOver([i \in 1..n |->
                                     IF i + k - 1 <= n THEN c[i] * c[i + k - 1] ELSE 0],
                                   0..(n - 1))

\* a signal of three samples or more, not constant, with a negative lag
C9_Witness ==
  /\ pc = "autcorr"
  /\ Len(args.x) >= 3
  /\ Cardinality(Range(args.x)) > 1
  /\ \E k \in DOMAIN ret : ret[k].num < 0

\* C10: on a non-empty frame get_continuous_segments returns non-empty pieces
\* whose concatenation is the input in order, with every gap inside a piece
\* <= tjump and every gap between two pieces > tjump; the pieces are the
\* candidate segments of assign_segments with dT = tjump; and no bin of
\* resample holds two rows with a gap > 1 s between them.
C10_PiecesPartition ==
  /\ (pc = "get_continuous_segments" /\ Len(args.df) > 0) =>
       LET df == args.df
           cand == CandidateSegments(df, args.tjump)
       IN  /\ \A p \in DOMAIN ret : ret[p] # <<>>
           /\ Flatten(ret) = Arange(0, Len(df))
           /\ \A p \in DOMAIN ret :
                \A k \in 1..(Len(ret[p]) - 1) :
                  GapAfter(df, ret[p][k]) <= args.tjump
           /\ \A p \in 1..(Len(ret) - 1) :
                GapAfter(df, ret[p][Len(ret[p])]) > args.tjump
           /\ Len(ret) = Len(cand)
           /\ \A p \in DOMAIN ret :
                cand[p] = <<ret[p][1], ret[p][Len(ret[p])] + 1>>
  /\ (pc = "resample") =>
       /\ \A k \in DOMAIN ret :
            \A r \in ret[k].rows :
              (r + 1 < Len(args.df) /\ GapAfter(args.df, r) > TJumpDefault)
                => \A r2 \in ret[k].rows : r2 <= r
       /\ UNION {ret[k].rows : k \in DOMAIN ret} = 0..(Len(args.df) - 1)

\* three pieces came back, one of them with two rows or more
C10_Witness ==
  /\ pc = "get_continuous_segments"
  /\ Len(ret) = 3
  /\ \E p \in DOMAIN ret : Len(ret[p]) >= 2

====
